---- MODULE Spec2Model ----
(***************************************************************************)
(* Model of the lead-generation backend (src/backend/app.py): the task     *)
(* store tasks_db, the submission and query endpoints and the background   *)
(* worker process_lead_generation_task, one worker thread per task id.     *)
(*                                                                         *)
(* Status names of the code and of the specification:                      *)
(*   pending                 = pending                                     *)
(*   completed_no_results    = no_results                                  *)
(*   completed_ch_search     = filtering_done                              *)
(*   completed_anymailfinder = leads_found                                 *)
(*   completed_no_emails     = no_emails                                   *)
(*   failed                  = failed                                      *)
(* The code has no status for the specification's "searching".             *)
(*                                                                         *)
(* Python's None is modelled as the string "None" for string fields and as *)
(* the empty tuple for optional values (<<>> = None, <<v>> = value v).     *)
(***************************************************************************)
EXTENDS Integers, Sequences, FiniteSets, TLC

\* ---------------------------------------------------------------- bounds
MaxTasks == 2        \* task ids that can be generated
MaxPageItems == 2    \* items a search page of the stub registry can hold
MaxTotal == 4        \* largest total_results a search page reports
MaxOfficers == 2     \* officers a stub officer list can hold
MaxNameLen == 4      \* longest company name handed to the domain deriver
MaxDim == 3          \* largest height and width of a grid
MaxCap == 1          \* largest configured MAX_COMPANIES_TO_PROCESS

\* ------------------------------------------------------ program constants
\* The page size and the search ceiling keep their role; their values are
\* scaled down (100 and 200 in the source) so that several pages and the
\* ceiling are reached with a few items.
items_per_page_ch == 2
MAX_INITIAL_SEARCH_RESULTS_CONFIG == 3

TaskIds == 1..MaxTasks

\* statuses written by the code
PENDING == "pending"
NO_RESULTS == "completed_no_results"
FILTERING_DONE == "completed_ch_search"
LEADS_FOUND == "completed_anymailfinder"
NO_EMAILS == "completed_no_emails"
FAILED == "failed"
\* the specification's status that the code never writes
SEARCHING == "searching"

TerminalStatuses == {NO_RESULTS, NO_EMAILS, LEADS_FOUND, FAILED}

VARIABLES
    tasks_db,       \* the task store: task id -> task record
    twilio_client,  \* TRUE iff the notifier is configured
    max_companies,  \* MAX_COMPANIES_TO_PROCESS_CONFIG
    pc,             \* position of the worker of each task id
    items,          \* all_company_items_from_search
    start_index,    \* current_start_index
    idx,            \* position of the stage-2 / stage-3 company loop
    qualified,      \* qualified_companies_profiles
    officers,       \* officers_data['items'] of the current company
    oidx,           \* position of the officer loop
    leads,          \* final_leads_list
    errmsg,         \* message of the exception being handled
    calls,          \* history: kinds of outbound calls each worker has made
    queried,        \* history: officers an Email Finder query was issued for
    sms_at,         \* history: task statuses at which a send was attempted
    runs,           \* history: workers started per task id
    seen,           \* history: last record getTask returned per task id
    last_page,      \* history: the search page the step just taken received
    last_absent,    \* history: the step just taken was an outbound call of
                    \* the worker that returned None
    client,         \* one call of a client: its attempts and its result
    fx              \* one application of a pure function: input and output

vars == <<tasks_db, twilio_client, max_companies, pc, items, start_index, idx,
          qualified, officers, oidx, leads, errmsg, calls, queried, sms_at, runs, seen,
          last_absent, last_page, client, fx>>

wvars == <<items, start_index, idx, qualified, officers, oidx, leads, errmsg>>

\* ------------------------------------------------------------------ dates
\* datetime(y, m, d) raises ValueError unless (y, m, d) is a calendar date.
IsLeap(y) == (y % 4 = 0 /\ y % 100 # 0) \/ y % 400 = 0

DaysInMonth(y, m) ==
    IF m = 2 THEN (IF IsLeap(y) THEN 29 ELSE 28)
    ELSE IF m \in {4, 6, 9, 11} THEN 30 ELSE 31

\* variant: datetime() builds a date from any day number up to 31
ValidDate_anyDay(y, m, d) == m \in 1..12 /\ d \in 1..31

ValidDate(y, m, d) == m \in 1..12 /\ d >= 1 /\ d <= DaysInMonth(y, m)

DateNum(dt) == dt.y * 10000 + dt.m * 100 + dt.d

\* The loop over potential_ard_year: a year whose date cannot be built is
\* skipped, the loop stops at the first year whose date is in the range.
MatchFoundInRange(sd, ed, ard_month, ard_day) ==
    \E y \in (sd.y - 1)..(ed.y + 1) :
        /\ ValidDate(y, ard_month, ard_day)
        /\ DateNum(sd) <= DateNum([y |-> y, m |-> ard_month, d |-> ard_day])
        /\ DateNum([y |-> y, m |-> ard_month, d |-> ard_day]) <= DateNum(ed)

\* lines 184-193 as the code runs them, year by year from y to last: the
\* years whose date datetime() refuses (ValueError, caught at line 191), the
\* years whose date was compared with the range, and match_found_in_range.
RECURSIVE YearLoop(_, _, _, _, _, _)
YearLoop(y, last, sd, ed, ard_month, ard_day) ==
    IF y > last THEN [skipped |-> {}, tested |-> {}, match |-> FALSE]
    ELSE IF ~ValidDate(y, ard_month, ard_day)
    THEN LET r == YearLoop(y + 1, last, sd, ed, ard_month, ard_day)
         IN [r EXCEPT !.skipped = @ \cup {y}]
    ELSE LET dt == DateNum([y |-> y, m |-> ard_month, d |-> ard_day])
         IN IF DateNum(sd) <= dt /\ dt <= DateNum(ed)
            THEN [skipped |-> {}, tested |-> {y}, match |-> TRUE]
            ELSE LET r == YearLoop(y + 1, last, sd, ed, ard_month, ard_day)
                 IN [r EXCEPT !.tested = @ \cup {y}]

\* str(v).zfill(2).isdigit(): true of a missing key (''.zfill(2) = '00', read
\* as 0) and of a non-negative number; a negative or non-numeric value
\* (modelled as -1) is not a digit string.
ArdIsDigit(v) == v >= 0

\* ---------------------------------------------------------------- strings
\* Strings that the code inspects are sequences of one-character strings.
LowerChar(c) ==
    IF c = "L" THEN "l" ELSE IF c = "N" THEN "n" ELSE IF c = "B" THEN "b" ELSE c

Lower(s) == [i \in 1..Len(s) |-> LowerChar(s[i])]

RECURSIVE Strip(_)
Strip(s) ==
    IF s = <<>> THEN s
    ELSE IF Head(s) = " " THEN Strip(Tail(s))
    ELSE IF s[Len(s)] = " " THEN Strip(SubSeq(s, 1, Len(s) - 1))
    ELSE s

\* sub in s
Contains(sub, s) ==
    \E i \in 0..(Len(s) - Len(sub)) : SubSeq(s, i + 1, i + Len(sub)) = sub

\* " ".join(filter(None, address_parts))
RECURSIVE JoinParts(_)
JoinParts(parts) ==
    IF parts = <<>> THEN <<>>
    ELSE IF Head(parts) = <<>> THEN JoinParts(Tail(parts))
    ELSE LET rest == JoinParts(Tail(parts))
         IN IF rest = <<>> THEN Head(parts) ELSE Head(parts) \o <<" ">> \o rest

\* ------------------------------------------------------ domain deriver
\* name.endswith(suffix)
EndsWith(name, suffix) ==
    /\ Len(name) >= Len(suffix)
    /\ SubSeq(name, Len(name) - Len(suffix) + 1, Len(name)) = suffix

\* lines 468-472, in the order of the list
suffixes_to_remove ==
    <<
       <<" ", "l", "i", "m", "i", "t", "e", "d", " ", "l", "i", "a",
         "b", "i", "l", "i", "t", "y", " ", "p", "a", "r", "t", "n",
         "e", "r", "s", "h", "i", "p">>,
       <<" ", "p", "u", "b", "l", "i", "c", " ", "l", "i", "m", "i",
         "t", "e", "d", " ", "c", "o", "m", "p", "a", "n", "y">>,
       <<" ", "c", "o", "m", "m", "u", "n", "i", "t", "y", " ", "i",
         "n", "t", "e", "r", "e", "s", "t", " ", "c", "o", "m", "p",
         "a", "n", "y">>,
       <<" ", "l", "t", "d">>,
       <<" ", "l", "i", "m", "i", "t", "e", "d">>,
       <<" ", "p", "l", "c">>,
       <<" ", "l", "l", "p">>,
       <<" ", "c", "i", "c">>
    >>

\* lines 473-476: the first suffix the name ends with is cut off and the
\* rest is stripped of white space; no other suffix is looked at
RECURSIVE RemoveSuffix(_, _)
RemoveSuffix(name, i) ==
    IF i > Len(suffixes_to_remove) THEN name
    ELSE IF EndsWith(name, suffixes_to_remove[i])
    THEN Strip(SubSeq(name, 1, Len(name) - Len(suffixes_to_remove[i])))
    ELSE RemoveSuffix(name, i + 1)

\* the character classes of the patterns, on the characters names are made
\* of: \w is a letter, a digit or the underscore; \s is white space
Letters == {"a", "b", "B", "l", "t", "d", "L", "N", "n", "x"}
Digits == {"1"}
IsWordChar(c) == c \in Letters \cup Digits \cup {"_"}
IsSpace(c) == c = " "

\* re.sub(r'[^\w\s-]', '', name)
RemoveOthers(name) ==
    SelectSeq(name, LAMBDA c : IsWordChar(c) \/ IsSpace(c) \/ c = "-")

\* re.sub(r'\s+', '-', name): every maximal run of white space becomes one
\* hyphen
RECURSIVE SpacesToHyphen(_)
SpacesToHyphen(name) ==
    IF name = <<>> THEN <<>>
    ELSE IF IsSpace(Head(name))
    THEN IF Len(name) > 1 /\ IsSpace(name[2])
         THEN SpacesToHyphen(Tail(name))
         ELSE <<"-">> \o SpacesToHyphen(Tail(name))
    ELSE <<Head(name)>> \o SpacesToHyphen(Tail(name))

\* re.sub(r'-+', '-', name)
RECURSIVE CollapseHyphens(_)
CollapseHyphens(name) ==
    IF name = <<>> THEN <<>>
    ELSE IF Head(name) = "-" /\ Len(name) > 1 /\ name[2] = "-"
    THEN CollapseHyphens(Tail(name))
    ELSE <<Head(name)>> \o CollapseHyphens(Tail(name))

\* name.strip('-')
RECURSIVE StripHyphens(_)
StripHyphens(name) ==
    IF name = <<>> THEN name
    ELSE IF Head(name) = "-" THEN StripHyphens(Tail(name))
    ELSE IF name[Len(name)] = "-" THEN StripHyphens(SubSeq(name, 1, Len(name) - 1))
    ELSE name

\* lines 466-483: the name after lowering, suffix removal and cleaning
CleanedName(company_name) ==
    StripHyphens(CollapseHyphens(SpacesToHyphen(RemoveOthers(
        RemoveSuffix(Lower(company_name), 1)))))

CoUk == <<".", "c", "o", ".", "u", "k">>

\* None is <<>>, a domain d is <<d>>
heuristically_derive_domain_from_name(company_name) ==
    IF company_name = <<>> THEN <<>>
    ELSE LET name == CleanedName(company_name)
         IN IF name = <<>> THEN <<>> ELSE <<name \o CoUk>>

\* ------------------------------------------------------------- boggle.py
\* range(n)
Range(n) == 0..(n - 1)

\* the inner clause of the comprehension: the keys of one row, each with ''
RECURSIVE GridRow(_, _, _)
GridRow(grid, row, cols) ==
    IF cols = {} THEN grid
    ELSE LET col == CHOOSE c \in cols : \A d \in cols : c <= d
         IN GridRow((<<row, col>> :> "") @@ grid, row, cols \ {col})

\* the outer clause of the comprehension: row after row
RECURSIVE GridRows(_, _, _)
GridRows(grid, rows, width) ==
    IF rows = {} THEN grid
    ELSE LET row == CHOOSE r \in rows : \A q \in rows : r <= q
         IN GridRows(GridRow(grid, row, Range(width)), rows \ {row}, width)

\* variant: the ranges include their upper ends
make_grid_inclusive(height, width) ==
    [k \in (0..height) \X (0..width) |-> ""]

make_grid(height, width) == GridRows(<<>>, Range(height), width)

\* ------------------------------------------------------- stage-2 filters
\* The financial-year-end filter: TRUE iff the company is rejected.
ArdRejects(task_data, company_profile) ==
    LET ard_filter_type == task_data.budgetEndDateSearchType
        acc == company_profile.accounting_reference_date
    IN IF ard_filter_type = "None" \/ acc = <<>> THEN FALSE
       ELSE LET ard_month == acc[1].month
                ard_day == acc[1].day
            IN IF ard_filter_type = "month"
               THEN /\ task_data.budgetEndMonth # <<>>
                    /\ ArdIsDigit(ard_month)
                    /\ ard_month # task_data.budgetEndMonth[1]
               ELSE IF ard_filter_type = "range"
               THEN /\ task_data.budgetEndStartDate # <<>>
                    /\ task_data.budgetEndEndDate # <<>>
                    /\ ArdIsDigit(ard_day) /\ ArdIsDigit(ard_month)
                    \* strptime raises ValueError on a date that does not
                    \* exist; the handler skips the range check
                    /\ LET sd == task_data.budgetEndStartDate[1]
                           ed == task_data.budgetEndEndDate[1]
                       IN /\ ValidDate(sd.y, sd.m, sd.d)
                          /\ ValidDate(ed.y, ed.m, ed.d)
                          /\ ard_month \in 1..12 /\ ard_day \in 1..31
                          /\ ~MatchFoundInRange(sd, ed, ard_month, ard_day)
               ELSE FALSE

\* lines 155-177: the filter gets as far as the loop over the years
ReachesYearLoop(task_data, company_profile) ==
    LET acc == company_profile.accounting_reference_date
    IN /\ task_data.budgetEndDateSearchType = "range"
       /\ acc # <<>>
       /\ task_data.budgetEndStartDate # <<>>
       /\ task_data.budgetEndEndDate # <<>>
       /\ ArdIsDigit(acc[1].day) /\ ArdIsDigit(acc[1].month)
       /\ LET sd == task_data.budgetEndStartDate[1]
              ed == task_data.budgetEndEndDate[1]
          IN ValidDate(sd.y, sd.m, sd.d) /\ ValidDate(ed.y, ed.m, ed.d)
       /\ acc[1].month \in 1..12 /\ acc[1].day \in 1..31

\* what the loop over the years did for this company, if it was reached
YearsChecked(task_data, company_profile) ==
    IF ReachesYearLoop(task_data, company_profile)
    THEN LET sd == task_data.budgetEndStartDate[1]
             ed == task_data.budgetEndEndDate[1]
             acc == company_profile.accounting_reference_date[1]
         IN YearLoop(sd.y - 1, ed.y + 1, sd, ed, acc.month, acc.day)
    ELSE [skipped |-> {}, tested |-> {}, match |-> FALSE]

\* The location filter: TRUE iff the company is rejected.
LocationRejects(task_data, company_profile) ==
    LET user_location_filter == Lower(Strip(task_data.location))
        full_address_str == Lower(JoinParts(company_profile.address_parts))
    IN /\ user_location_filter # <<>>
       /\ ~Contains(user_location_filter, full_address_str)

\* variant: a company is rejected when a revenue bound is given
Qualifies_revenueFilter(task_data, company_profile) ==
    /\ company_profile.company_status = "active"
    /\ ~ArdRejects(task_data, company_profile)
    /\ ~LocationRejects(task_data, company_profile)
    /\ task_data.revenueMin = <<>>

\* The revenue and employee bounds are read and logged only.
Qualifies(task_data, company_profile) ==
    /\ company_profile.company_status = "active"
    /\ ~ArdRejects(task_data, company_profile)
    /\ ~LocationRejects(task_data, company_profile)

\* ------------------------------------------------------------ stub inputs
NoDate == <<>>
Date(y, m, d) == <<[y |-> y, m |-> m, d |-> d]>>

BaseCriteria ==
    [sicCodesArray |-> <<"62020">>, budgetEndDateSearchType |-> "None",
     budgetEndMonth |-> <<>>, budgetEndStartDate |-> NoDate,
     budgetEndEndDate |-> NoDate, location |-> <<>>,
     revenueMin |-> <<>>, employeesMax |-> <<>>]

\* criteria a client submits (each with a phone number)
CriteriaSet ==
    { BaseCriteria,
      [BaseCriteria EXCEPT !.sicCodesArray = <<>>],
      [BaseCriteria EXCEPT !.budgetEndDateSearchType = "month",
                           !.budgetEndMonth = <<2>>,
                           !.revenueMin = <<1000>>],
      [BaseCriteria EXCEPT !.budgetEndDateSearchType = "range",
                           !.budgetEndStartDate = Date(2023, 2, 25),
                           !.budgetEndEndDate = Date(2023, 3, 5),
                           !.location = <<"L", "n", " ">>] }

NoArd == <<>>
Ard(m, d) == <<[month |-> m, day |-> d]>>

\* profiles the stub registry answers with (the company number is added)
ProfileSet ==
    { [company_status |-> "dissolved", accounting_reference_date |-> Ard(3, 1),
       address_parts |-> << <<"l", "n">> >>],
      [company_status |-> "active", accounting_reference_date |-> Ard(3, 1),
       address_parts |-> << <<"x">>, <<>>, <<"L", "N">> >>],
      [company_status |-> "active", accounting_reference_date |-> Ard(2, 29),
       address_parts |-> << <<"l", "n">> >>],
      [company_status |-> "active", accounting_reference_date |-> NoArd,
       address_parts |-> << <<"x">> >>] }

\* officer entries of the stub registry
OfficerSet ==
    { [officer_role |-> "director", name |-> "A", resigned_on |-> "None"],
      [officer_role |-> "director", name |-> "B", resigned_on |-> "2020-01-01"],
      [officer_role |-> "secretary", name |-> "C", resigned_on |-> "None"],
      [officer_role |-> "director", name |-> "", resigned_on |-> "None"] }

\* `if resigned_on: continue`: a missing or empty resignation date is falsy
Resigned(officer) == officer.resigned_on \notin {"None", ""}

\* any(keyword in officer_role_raw for keyword in TARGET_ROLES_KEYWORDS), on
\* the role strings of the stub: the lowercased role contains "director"
is_decision_maker(officer) == officer.officer_role \in {"director", "Managing Director"}

\* responses of the Email Finder Client: None, or a JSON object
AmfNone == <<>>
AmfResponses ==
    { AmfNone,
      <<[email |-> "a@x", status |-> "verified", error |-> "None"]>>,
      <<[email |-> "a@x", status |-> "unverified", error |-> "None"]>>,
      <<[email |-> "None", status |-> "None", error |-> "not_found"]>> }

\* line 315: the email counts as found
EmailFound(r) ==
    /\ r # AmfNone
    /\ r[1].email \notin {"None", ""}
    /\ r[1].status \in {"verified", " probabilmente_valida"}

\* sequences over S of length lo..hi
SeqsOf(S, lo, hi) == UNION {[1..n -> S] : n \in lo..hi}

\* ------------------------------------------------------------------- Init
\* no client call is being followed, no function has been applied
ClientIdle == [who |-> "idle"]
FxIdle == [fn |-> "none"]

CapValues == 0..MaxCap

Init ==
    /\ tasks_db = <<>>
    /\ twilio_client \in BOOLEAN
    /\ max_companies \in CapValues
    /\ pc = [t \in TaskIds |-> "idle"]
    /\ items = [t \in TaskIds |-> <<>>]
    /\ start_index = [t \in TaskIds |-> 0]
    /\ idx = [t \in TaskIds |-> 0]
    /\ qualified = [t \in TaskIds |-> <<>>]
    /\ officers = [t \in TaskIds |-> <<>>]
    /\ oidx = [t \in TaskIds |-> 0]
    /\ leads = [t \in TaskIds |-> <<>>]
    /\ errmsg = [t \in TaskIds |-> "None"]
    /\ calls = [t \in TaskIds |-> {}]
    /\ queried = [t \in TaskIds |-> {}]
    /\ sms_at = [t \in TaskIds |-> {}]
    /\ runs = [t \in TaskIds |-> 0]
    /\ seen = [t \in TaskIds |-> <<>>]
    /\ last_absent = [t \in TaskIds |-> FALSE]
    /\ last_page = [t \in TaskIds |-> <<>>]
    /\ client = ClientIdle
    /\ fx = FxIdle

\* ------------------------------------------------------------- endpoints
\* mutant: the generated id can be the id of an existing task
NewTaskIds_reused == TaskIds

\* uuid.uuid4(): an id no task has
NewTaskIds == TaskIds \ DOMAIN tasks_db

\* submit_criteria_route: a JSON body with a phone number (any other request
\* is answered 400 and changes nothing); creates the record and starts the
\* worker thread.
submit_criteria_route(t, data) ==
    /\ t \in NewTaskIds
    /\ tasks_db' = [u \in DOMAIN tasks_db \cup {t} |->
                      IF u = t
                      THEN [status |-> PENDING, data |-> data,
                            phone_number |-> "+441234567890",
                            results |-> <<>>, error |-> "None",
                            sms_status |-> "pending", sms_error |-> "None"]
                      ELSE tasks_db[u]]
    /\ pc' = [pc EXCEPT ![t] = "start"]
    /\ runs' = [runs EXCEPT ![t] = @ + 1]
    /\ UNCHANGED <<twilio_client, max_companies, wvars, calls, queried, sms_at, seen,
                   last_absent, last_page, client, fx>>

\* the record get_leads_route answers with
ResponseData(task_info) ==
    [status |-> task_info.status, phone_number |-> task_info.phone_number,
     results |-> task_info.results, error |-> task_info.error,
     sms_status |-> task_info.sms_status, sms_error |-> task_info.sms_error,
     task_data |-> task_info.data]

\* get_leads_route for an id of the store (an unknown id is answered 404)
get_leads_route(t) ==
    /\ t \in DOMAIN tasks_db
    /\ seen' = [seen EXCEPT ![t] = <<ResponseData(tasks_db[t])>>]
    /\ UNCHANGED <<tasks_db, twilio_client, max_companies, pc, wvars, calls,
                   queried, sms_at, runs, last_absent, last_page, client, fx>>

\* ----------------------------------------------------------------- worker
\* process_lead_generation_task(t), one action per outbound call and per
\* write to tasks_db[t].

config == <<twilio_client, max_companies, client, fx>>
history == <<queried, sms_at, runs, seen>>

Goto(t, label) == pc' = [pc EXCEPT ![t] = label]

\* An exception reaches the handlers of lines 362-369.  Apart from the
\* missing industry code, an outbound call raises out of its client when
\* int() rejects the Retry-After header (line 385) or the body is not JSON
\* (lines 381, 412), and the caller raises on an answer of another shape
\* than the one it reads (lines 139, 277, 315).
Raise(t, msg) ==
    /\ Goto(t, "fail_status")
    /\ errmsg' = [errmsg EXCEPT ![t] = msg]

Called(t, kind) == calls' = [calls EXCEPT ![t] = @ \cup {kind}]

\* the step is an outbound call that returned None (absent), or it is not
Answered(t, absent) ==
    /\ last_absent' = [last_absent EXCEPT ![t] = absent]
    /\ last_page' = [last_page EXCEPT ![t] = <<>>]

\* the step is a search request that was answered with a page of items
AnsweredPage(t, page) ==
    /\ last_absent' = [last_absent EXCEPT ![t] = FALSE]
    /\ last_page' = [last_page EXCEPT ![t] = <<page>>]

\* mutant: the industry codes are not checked
NoSicCodes_unchecked(task_data) == FALSE

\* line 96: `if not sic_codes`, for a missing or empty sicCodesArray
NoSicCodes(task_data) == task_data.sicCodesArray = <<>>

\* lines 89-104: read the criteria, require an industry code
Start(t) ==
    /\ pc[t] = "start"
    /\ IF NoSicCodes(tasks_db[t].data)
       THEN Raise(t, "No SIC codes provided for search.")
       ELSE Goto(t, "search") /\ UNCHANGED errmsg
    /\ items' = [items EXCEPT ![t] = <<>>]
    /\ start_index' = [start_index EXCEPT ![t] = 0]
    /\ Answered(t, FALSE)
    /\ UNCHANGED <<tasks_db, config, idx, qualified, officers, oidx, leads, calls, history>>

\* answers of the registry search: an exception out of the client, None, or
\* a page; an item of a page carries a company number or not
SearchPages(stub) ==
    [items : SeqsOf(BOOLEAN, 0, stub.max_items), total_results : stub.totals]

\* variant: the ceiling on the accumulated items is not tested
SearchEnds_ignoresCeiling(next_start_index, total_results_available, fetched) ==
    next_start_index >= total_results_available

\* line 124: no further page
SearchEnds(next_start_index, total_results_available, fetched) ==
    \/ next_start_index >= total_results_available
    \/ fetched >= MAX_INITIAL_SEARCH_RESULTS_CONFIG

\* variant: the filtering loop is entered whatever the search brought
AfterSearch_noItemsCheck(all_items) == "filter"

\* lines 130-137: where the worker goes when the pagination loop has ended
AfterSearch(all_items) == IF all_items = <<>> THEN "nores_results" ELSE "filter"

\* the items of a page, appended at position Len(all_items) + 1; the company
\* number of an item is its position in the registry's answer, 0 if missing
PageItems(all_items, page) ==
    [j \in 1..Len(page.items) |->
        IF page.items[j] THEN Len(all_items) + j ELSE 0]

\* lines 107-111: the parameters of the next search request
search_params(t) ==
    [q |-> tasks_db[t].data.sicCodesArray[1],
     items_per_page |-> items_per_page_ch,
     start_index |-> start_index[t]]

\* lines 106-128: one iteration of the pagination loop
SearchPage(t, stub) ==
    /\ pc[t] = "search"
    /\ Called(t, "search")
    /\ \/ /\ Raise(t, "registry error")
          /\ Answered(t, FALSE)
          /\ UNCHANGED <<items, start_index, idx>>
       \/ \* None, or an answer with no items key or an empty page: break
          /\ \E absent \in BOOLEAN : Answered(t, absent)
          /\ Goto(t, AfterSearch(items[t]))
          /\ idx' = [idx EXCEPT ![t] = 1]
          /\ UNCHANGED <<items, start_index, errmsg>>
       \/ \E page \in SearchPages(stub) :
            /\ page.items # <<>>
            /\ LET all == items[t] \o PageItems(items[t], page)
                   nxt == start_index[t] + items_per_page_ch
               IN /\ items' = [items EXCEPT ![t] = all]
                  /\ start_index' = [start_index EXCEPT ![t] = nxt]
                  /\ IF SearchEnds(nxt, page.total_results, Len(all))
                     THEN Goto(t, AfterSearch(all))
                     ELSE Goto(t, "search")
            /\ idx' = [idx EXCEPT ![t] = 1]
            /\ AnsweredPage(t, page)
            /\ UNCHANGED errmsg
    /\ UNCHANGED <<tasks_db, config, qualified, officers, oidx, leads, history>>

SetField(t, field, value) == tasks_db' = [tasks_db EXCEPT ![t][field] = value]

\* line 134
WriteNoResultsResults(t) ==
    /\ pc[t] = "nores_results"
    /\ SetField(t, "results", << <<>> >>)
    /\ Goto(t, "nores_status")
    /\ Answered(t, FALSE)
    /\ UNCHANGED <<config, wvars, calls, history>>

\* variant: stage 3 is entered whatever stages 1 and 2 left
Stage3Entry_always(status, qualified_companies_profiles) == "officers"

\* lines 259, 335: the stage the worker enters after stages 1 and 2
Stage3Entry(status, qualified_companies_profiles) ==
    IF status = FILTERING_DONE /\ qualified_companies_profiles # <<>>
    THEN "officers"
    ELSE "sms"

\* line 135, then the tests of lines 259 and 335
WriteNoResultsStatus(t) ==
    /\ pc[t] = "nores_status"
    /\ SetField(t, "status", NO_RESULTS)
    /\ Goto(t, Stage3Entry(NO_RESULTS, qualified[t]))
    /\ Answered(t, FALSE)
    /\ UNCHANGED <<config, wvars, calls, history>>

\* line 248: the cap on qualified companies is tested after the append
CapReached(n, cap) == n >= cap

\* variant: a continue of the filtering loop leaves the loop
NextItem_break(t) ==
    /\ idx' = [idx EXCEPT ![t] = 1]
    /\ Goto(t, "chdone_status")

\* the continue statements of lines 141, 146, 150, 163, 199, 218: the loop of
\* line 138 moves to the next search item, or ends
NextItem(t) ==
    IF idx[t] < Len(items[t])
    THEN /\ idx' = [idx EXCEPT ![t] = @ + 1]
         /\ UNCHANGED pc
    ELSE /\ idx' = [idx EXCEPT ![t] = 1]
         /\ Goto(t, "chdone_status")

\* lines 138-250: one iteration of the filtering loop, for items[t][idx[t]]
FilterCompany(t, stub) ==
    /\ pc[t] = "filter"
    /\ LET company_number == items[t][idx[t]]
           task_data == tasks_db[t].data
           Continue == NextItem(t)
       IN IF company_number = 0
          THEN Continue /\ Answered(t, FALSE) /\ UNCHANGED <<qualified, errmsg, calls>>
          ELSE /\ Called(t, "profile")
               /\ \/ /\ Raise(t, "registry error")
                     /\ Answered(t, FALSE)
                     /\ UNCHANGED <<qualified, idx>>
                  \/ \* the profile fetch returned None
                     Continue /\ Answered(t, TRUE) /\ UNCHANGED <<qualified, errmsg>>
                  \/ \E profile \in stub.profiles :
                       /\ UNCHANGED errmsg
                       /\ Answered(t, FALSE)
                       /\ IF Qualifies(task_data, profile)
                          THEN LET company_profile ==
                                     [company_number |-> company_number,
                                      profile |-> profile,
                                      original_search_criteria |-> task_data]
                                   q == Append(qualified[t], company_profile)
                               IN /\ qualified' = [qualified EXCEPT ![t] = q]
                                  /\ IF CapReached(Len(q), max_companies)
                                     THEN /\ idx' = [idx EXCEPT ![t] = 1]
                                          /\ Goto(t, "chdone_status")
                                     ELSE Continue
                          ELSE Continue /\ UNCHANGED qualified
    /\ UNCHANGED <<tasks_db, config, items, start_index, officers, oidx, leads, history>>

\* line 253
WriteFilteringDoneStatus(t) ==
    /\ pc[t] = "chdone_status"
    /\ SetField(t, "status", FILTERING_DONE)
    /\ Goto(t, "chdone_results")
    /\ Answered(t, FALSE)
    /\ UNCHANGED <<config, wvars, calls, history>>

\* line 254, then the tests of lines 259 and 335
WriteFilteringDoneResults(t) ==
    /\ pc[t] = "chdone_results"
    /\ SetField(t, "results", <<qualified[t]>>)
    /\ Goto(t, Stage3Entry(tasks_db[t].status, qualified[t]))
    /\ Answered(t, FALSE)
    /\ UNCHANGED <<config, wvars, calls, history>>

\* the loop of line 262 moves to the next qualified company, or ends
NextCompany(t) ==
    IF idx[t] < Len(qualified[t])
    THEN /\ idx' = [idx EXCEPT ![t] = @ + 1]
         /\ Goto(t, "officers")
    ELSE /\ idx' = [idx EXCEPT ![t] = 1]
         /\ Goto(t, "amf_results")

\* lines 262-274: fetch the officers of qualified[t][idx[t]]
FetchOfficers(t, stub) ==
    /\ pc[t] = "officers"
    /\ Called(t, "officers")
    /\ \/ /\ Raise(t, "registry error")
          /\ Answered(t, FALSE)
          /\ UNCHANGED <<idx, officers, oidx>>
       \/ \* None, or an answer without an items key
          /\ \E absent \in BOOLEAN : Answered(t, absent)
          /\ NextCompany(t)
          /\ UNCHANGED <<officers, oidx, errmsg>>
       \/ \E ofs \in SeqsOf(stub.officers, 0, stub.max_officers) :
            /\ officers' = [officers EXCEPT ![t] = ofs]
            /\ oidx' = [oidx EXCEPT ![t] = 1]
            /\ Answered(t, FALSE)
            /\ IF ofs = <<>> THEN NextCompany(t)
               ELSE Goto(t, "officer") /\ UNCHANGED idx
            /\ UNCHANGED errmsg
    /\ UNCHANGED <<tasks_db, config, items, start_index, qualified, leads, history>>

\* mutant: resigned officers are not skipped
SkipsOfficer_never(officer) == FALSE

\* line 281: an officer with a resignation date is skipped
SkipsOfficer(officer) == Resigned(officer)

\* lines 276-329: one iteration of the officer loop, for officers[t][oidx[t]]
ExamineOfficer(t) ==
    /\ pc[t] = "officer"
    /\ LET officer == officers[t][oidx[t]]
           company == qualified[t][idx[t]]
           Continue == /\ oidx' = [oidx EXCEPT ![t] = @ + 1]
                       /\ IF oidx[t] = Len(officers[t]) THEN NextCompany(t)
                          ELSE UNCHANGED <<pc, idx>>
       IN IF SkipsOfficer(officer) \/ ~(is_decision_maker(officer) /\ officer.name # "")
          THEN Continue /\ Answered(t, FALSE) /\ UNCHANGED <<leads, errmsg, calls, queried>>
          ELSE /\ Called(t, "amf")
               /\ queried' = [queried EXCEPT ![t] = @ \cup {officer}]
               /\ \/ /\ Raise(t, "email finder error")
                     /\ Answered(t, FALSE)
                     /\ UNCHANGED <<leads, oidx, idx>>
                  \/ \E email_search_result \in AmfResponses :
                       /\ Continue
                       /\ Answered(t, email_search_result = AmfNone)
                       /\ UNCHANGED errmsg
                       /\ IF EmailFound(email_search_result)
                          THEN leads' = [leads EXCEPT ![t] = Append(@,
                                  [company_number |-> company.company_number,
                                   person_name |-> officer.name,
                                   person_role |-> officer.officer_role,
                                   email |-> email_search_result[1].email])]
                          ELSE UNCHANGED leads
    /\ UNCHANGED <<tasks_db, config, items, start_index, qualified, officers,
                   sms_at, runs, seen>>

\* line 331
WriteLeadsResults(t) ==
    /\ pc[t] = "amf_results"
    /\ SetField(t, "results", <<leads[t]>>)
    /\ Goto(t, "amf_status")
    /\ Answered(t, FALSE)
    /\ UNCHANGED <<config, wvars, calls, history>>

\* mutant: the empty lead list is reported as an empty search
FinalStatus_noResults(final_leads_list) ==
    IF final_leads_list # <<>> THEN LEADS_FOUND ELSE NO_RESULTS

\* mutant: the test of the lead list is inverted
FinalStatus_inverted(final_leads_list) ==
    IF final_leads_list = <<>> THEN LEADS_FOUND ELSE NO_EMAILS

\* line 332
FinalStatus(final_leads_list) ==
    IF final_leads_list # <<>> THEN LEADS_FOUND ELSE NO_EMAILS

WriteLeadsStatus(t) ==
    /\ pc[t] = "amf_status"
    /\ SetField(t, "status", FinalStatus(leads[t]))
    /\ Goto(t, "sms")
    /\ Answered(t, FALSE)
    /\ UNCHANGED <<config, wvars, calls, history>>

\* line 341: the statuses for which the notification step runs
NotifiesFor(current_task_status) == current_task_status \notin {FAILED, PENDING}

\* mutant: the outcome of the send is written to the task's status
SmsSent_toStatus(task_record) == [task_record EXCEPT !.status = "sent"]

\* line 351: the write after a send that succeeded
SmsSent(task_record) == [task_record EXCEPT !.sms_status = "sent"]

\* mutant: a send that raised fails the task
SmsFailed_failsTask(task_record) ==
    [task_record EXCEPT !.sms_status = "failed_to_send", !.status = FAILED]

\* line 354: the first write after a send that raised
SmsFailed(task_record) == [task_record EXCEPT !.sms_status = "failed_to_send"]

\* lines 340-360 up to the first write: the send, or the not_configured mark
Notify(t) ==
    /\ pc[t] = "sms"
    /\ LET current_task_status == tasks_db[t].status
       IN IF NotifiesFor(current_task_status) /\ tasks_db[t].phone_number # ""
          THEN IF twilio_client
               THEN /\ Called(t, "sms")
                    /\ sms_at' = [sms_at EXCEPT ![t] = @ \cup {current_task_status}]
                    /\ \/ /\ tasks_db' = [tasks_db EXCEPT ![t] = SmsSent(@)]
                          /\ Goto(t, "done")
                       \/ /\ tasks_db' = [tasks_db EXCEPT ![t] = SmsFailed(@)]
                          /\ Goto(t, "sms_error")
               ELSE /\ SetField(t, "sms_status", "not_configured")
                    /\ Goto(t, "done")
                    /\ UNCHANGED <<calls, sms_at>>
          ELSE /\ Goto(t, "done")
               /\ UNCHANGED <<tasks_db, calls, sms_at>>
    /\ Answered(t, FALSE)
    /\ UNCHANGED <<config, wvars, queried, runs, seen>>

\* variant: the write of the notification error also drops the results
WriteSmsError_dropsResults(t) ==
    /\ pc[t] = "sms_error"
    /\ tasks_db' = [tasks_db EXCEPT ![t]["sms_error"] = "send failed",
                                     ![t]["results"] = <<>>]
    /\ Goto(t, "done")
    /\ Answered(t, FALSE)
    /\ UNCHANGED <<config, wvars, calls, history>>

\* line 355
WriteSmsError(t) ==
    /\ pc[t] = "sms_error"
    /\ SetField(t, "sms_error", "send failed")
    /\ Goto(t, "done")
    /\ Answered(t, FALSE)
    /\ UNCHANGED <<config, wvars, calls, history>>

\* lines 364, 368
\* variant: the handler records the message before the status
WriteFailedStatus_errorFirst(t) ==
    /\ pc[t] = "fail_status"
    /\ SetField(t, "error", errmsg[t])
    /\ Goto(t, "fail_error")
    /\ Answered(t, FALSE)
    /\ UNCHANGED <<config, wvars, calls, history>>

WriteFailedStatus(t) ==
    /\ pc[t] = "fail_status"
    /\ SetField(t, "status", FAILED)
    /\ Goto(t, "fail_error")
    /\ Answered(t, FALSE)
    /\ UNCHANGED <<config, wvars, calls, history>>

\* lines 365, 369, then the finally clause
\* variant: the handler also clears the results
WriteFailedError_clearsResults(t) ==
    /\ pc[t] = "fail_error"
    /\ tasks_db' = [tasks_db EXCEPT ![t]["error"] = errmsg[t],
                                     ![t]["results"] = <<>>]
    /\ Goto(t, "done")
    /\ Answered(t, FALSE)
    /\ UNCHANGED <<config, wvars, calls, history>>

WriteFailedError(t) ==
    /\ pc[t] = "fail_error"
    /\ SetField(t, "error", errmsg[t])
    /\ Goto(t, "done")
    /\ Answered(t, FALSE)
    /\ UNCHANGED <<config, wvars, calls, history>>

WorkerStep(t, stub) ==
    \/ Start(t)
    \/ SearchPage(t, stub)
    \/ WriteNoResultsResults(t)
    \/ WriteNoResultsStatus(t)
    \/ FilterCompany(t, stub)
    \/ WriteFilteringDoneStatus(t)
    \/ WriteFilteringDoneResults(t)
    \/ FetchOfficers(t, stub)
    \/ ExamineOfficer(t)
    \/ WriteLeadsResults(t)
    \/ WriteLeadsStatus(t)
    \/ Notify(t)
    \/ WriteSmsError(t)
    \/ WriteFailedStatus(t)
    \/ WriteFailedError(t)

\* The stub registry: what its answers are drawn from.
FullStub ==
    [max_items |-> MaxPageItems, totals |-> 0..MaxTotal, profiles |-> ProfileSet,
     max_officers |-> MaxOfficers, officers |-> OfficerSet]

\* A registry with one active company that has at most one officer.
SmallStub ==
    [max_items |-> 1, totals |-> {0},
     profiles |-> {p \in ProfileSet : p.accounting_reference_date = NoArd},
     max_officers |-> 1,
     officers |-> {o \in OfficerSet : o.name = "A"}]

\* One client against the full stub registry.
Next ==
    \/ \E data \in CriteriaSet : submit_criteria_route(1, data)
    \/ get_leads_route(1)
    \/ WorkerStep(1, FullStub)

Spec == Init /\ [][Next]_vars

\* the scheduler runs every started worker thread; every outbound call returns
FairSpec == Spec /\ WF_vars(WorkerStep(1, FullStub))

\* Concurrent clients against the small stub registry: every task id can be
\* submitted, each with its own worker.
MultiCriteria == {c \in CriteriaSet : c.budgetEndDateSearchType = "None"}

MultiNext ==
    \/ \E t \in TaskIds, data \in MultiCriteria : submit_criteria_route(t, data)
    \/ \E t \in TaskIds : get_leads_route(t)
    \/ \E t \in TaskIds : WorkerStep(t, SmallStub)

MultiSpec == Init /\ [][MultiNext]_vars

\* ================================================================ claims
Created == DOMAIN tasks_db

\* One client against a registry whose searches report totals beyond the
\* second page; one profile, one officer.
SearchStub ==
    [max_items |-> MaxPageItems, totals |-> 0..(MaxTotal + 1),
     profiles |-> {p \in ProfileSet : p.accounting_reference_date = NoArd},
     max_officers |-> 1,
     officers |-> {o \in OfficerSet : o.name = "A"}]

SearchNext ==
    \/ \E data \in MultiCriteria : submit_criteria_route(1, data)
    \/ get_leads_route(1)
    \/ WorkerStep(1, SearchStub)

SearchSpec == Init /\ [][SearchNext]_vars

\* ---------------------------------------------------------------- clients
\* One call of make_companies_house_request ("ch") or of
\* make_anymailfinder_request ("amf"), attempt by attempt.  client.log holds
\* what each attempt met, client.result is "running" while the loop runs and
\* then "json" (the parsed body), "not_found" (the dict of line 422), "None"
\* or "raise" (an exception leaves the function).
cvars == <<tasks_db, twilio_client, max_companies, pc, wvars, calls, history,
           last_absent, last_page, fx>>

retries == 1

\* what an attempt can meet: a 2xx answer with a JSON body, a 2xx answer
\* whose body is not JSON, 429 (with a Retry-After that is missing or a
\* number of seconds, or one that is an HTTP date), 404, another error
\* status, ConnectionError, ConnectTimeout (a ConnectionError and a
\* Timeout), ReadTimeout (a Timeout), another RequestException
AttemptKinds ==
    {"ok", "bad_json", "429", "429_date", "404", "500", "conn",
     "connect_timeout", "read_timeout", "other"}

\* Lines 397-400 are except clauses at the indentation of the for statement,
\* which Python refuses; the two ways to make the function compile are to
\* indent them into the try of line 378 ("inner") or to wrap the loop in a
\* try of their own ("outer").
Readings == {"inner", "outer"}

\* variant: a connection error ends the call
OnConnectionError_noRetry(attempt) == "break"

\* lines 391-396 and 424-429
OnConnectionError(attempt) == IF attempt < retries THEN "continue" ELSE "break"

\* variant: no client has a result of its own for 404
OnNotFound_absent(who) == "break"

\* lines 421-422 for the Email Finder Client; the Registry Client has no
\* test for 404 and reaches the break of line 390
OnNotFound(who) == IF who = "amf" THEN "not_found" ELSE "break"

\* lines 384-390 and 415-423: the 429 branch is taken on the first attempt
\* only; int() of line 385 raises ValueError on an HTTP date
OnRateLimit(who, kind, attempt) ==
    IF attempt < retries
    THEN IF who = "ch" /\ kind = "429_date" THEN "raise" ELSE "continue"
    ELSE "break"

\* lines 397-400 and 430-439: a Timeout that is not a ConnectionError, or
\* another RequestException
OnRequestException(who, reading, kind, attempt) ==
    IF who = "amf"
    THEN IF kind = "read_timeout" THEN "break"
         ELSE IF attempt < retries THEN "continue" ELSE "break"
    ELSE IF reading = "inner" THEN "next" ELSE "leave"

\* what the body of the loop does with what the attempt met; json_is_rx says
\* whether the installed requests raises its own JSONDecodeError (a
\* RequestException) from response.json(), or a plain ValueError
Handle(who, reading, json_is_rx, kind, attempt) ==
    CASE kind = "ok" -> "json"
      [] kind = "bad_json" ->
            IF json_is_rx THEN OnRequestException(who, reading, "other", attempt)
            ELSE "raise"
      [] kind \in {"429", "429_date"} -> OnRateLimit(who, kind, attempt)
      [] kind = "404" -> OnNotFound(who)
      [] kind = "500" -> "break"
      [] kind \in {"conn", "connect_timeout"} -> OnConnectionError(attempt)
      [] kind \in {"read_timeout", "other"} ->
            OnRequestException(who, reading, kind, attempt)

\* the function is called
CallClient(who, reading, json_is_rx) ==
    /\ client' = [who |-> who, reading |-> reading, json_is_rx |-> json_is_rx,
                  attempt |-> 0, log |-> <<>>, result |-> "running"]
    /\ UNCHANGED cvars

\* one pass of the loop of line 377 or 408
Attempt(kind) ==
    /\ client.result = "running"
    /\ LET h == Handle(client.who, client.reading, client.json_is_rx, kind,
                       client.attempt)
           more == client.attempt < retries
       IN client' = [client EXCEPT
              !.log = Append(@, kind),
              !.attempt = IF h \in {"continue", "next"} /\ more THEN @ + 1 ELSE @,
              !.result = CASE h \in {"json", "not_found", "raise"} -> h
                           [] h \in {"break", "leave"} -> "None"
                           [] h \in {"continue", "next"} ->
                                 IF more THEN "running" ELSE "None"]
    /\ UNCHANGED cvars

ClientNext ==
    \/ /\ client = ClientIdle
       /\ \E who \in {"ch", "amf"}, reading \in Readings, json_is_rx \in BOOLEAN :
               CallClient(who, reading, json_is_rx)
    \/ /\ client # ClientIdle
       /\ \E kind \in AttemptKinds : Attempt(kind)

ClientSpec == Init /\ [][ClientNext]_vars

\* --------------------------------------------------------- pure functions
\* The functions of the program that read no shared state, applied to inputs
\* drawn from bounded sets; fx holds the application, one per behaviour.
pvars == <<tasks_db, twilio_client, max_companies, pc, wvars, calls, history,
           last_absent, last_page, client>>

\* year-end ranges a client asks for: 25 February to 5 March of a year, and
\* a range across the turn of a year
RangeYears == {2019, 2023, 2024, 2100}
RangeCriteria ==
    {[BaseCriteria EXCEPT !.budgetEndDateSearchType = "range",
                          !.budgetEndStartDate = Date(y, 2, 25),
                          !.budgetEndEndDate = Date(y, 3, 5)] : y \in RangeYears}
    \cup {[BaseCriteria EXCEPT !.budgetEndDateSearchType = "range",
                               !.budgetEndStartDate = Date(y, 12, 20),
                               !.budgetEndEndDate = Date(y + 1, 1, 10)] :
              y \in RangeYears}

\* year-end data of a profile: none, or a month and a day
ArdSet == {NoArd, Ard(2, 29), Ard(2, 28), Ard(2, 30), Ard(3, 1), Ard(12, 31),
           Ard(13, 1)}
ArdProfiles ==
    {[company_status |-> "active", accounting_reference_date |-> a,
      address_parts |-> << <<"x">> >>] : a \in ArdSet}

\* company names: up to MaxNameLen characters
NameChars == {"a", "B", "1", " ", "-", "_", "&", "l", "t", "d"}
CompanyNames == SeqsOf(NameChars, 0, MaxNameLen)

\* lines 461-491 applied to one company name
ApplyDeriveDomain(company_name) ==
    /\ fx' = [fn |-> "domain", in |-> company_name,
              out |-> heuristically_derive_domain_from_name(company_name)]
    /\ UNCHANGED pvars

\* lines 138-250 over the profiles of the search items, in order: the
\* positions of the companies appended to the qualified list, up to the cap
RECURSIVE Stage2Run(_, _, _, _, _)
Stage2Run(task_data, profiles, i, accepted, cap) ==
    IF i > Len(profiles) THEN accepted
    ELSE IF Qualifies(task_data, profiles[i])
    THEN LET q == Append(accepted, i)
         IN IF CapReached(Len(q), cap) THEN q
            ELSE Stage2Run(task_data, profiles, i + 1, q, cap)
    ELSE Stage2Run(task_data, profiles, i + 1, accepted, cap)

\* revenue and employee bounds a client can give
RevenueBounds == {<<>>, <<1000>>}
EmployeeBounds == {<<>>, <<50>>}

\* the answers of the registry to the profile fetches of one run
Stage2Profiles == SeqsOf(ProfileSet \cup ArdProfiles, 1, MaxPageItems)

\* stage 2 run twice on the same answers, the second time with other bounds
ApplyStage2Twice(task_data, revenue, employees, profiles) ==
    /\ LET other == [task_data EXCEPT !.revenueMin = revenue,
                                      !.employeesMax = employees]
           first == Stage2Run(task_data, profiles, 1, <<>>, max_companies)
           second == Stage2Run(other, profiles, 1, <<>>, max_companies)
       IN fx' = [fn |-> "stage2", in |-> <<task_data, other, profiles>>,
                 out |-> [accepted |-> <<first, second>>,
                          next |-> <<Stage3Entry(FILTERING_DONE, first),
                                     Stage3Entry(FILTERING_DONE, second)>>]]
    /\ UNCHANGED pvars

\* boggle.py applied to one height and width
ApplyMakeGrid(height, width) ==
    /\ fx' = [fn |-> "grid", in |-> <<height, width>>,
              out |-> make_grid(height, width)]
    /\ UNCHANGED pvars

\* lines 152-199 applied to one profile
ApplyArdFilter(task_data, company_profile) ==
    /\ fx' = [fn |-> "ard", in |-> <<task_data, company_profile>>,
              out |-> [rejected |-> ArdRejects(task_data, company_profile),
                       years |-> YearsChecked(task_data, company_profile)]]
    /\ UNCHANGED pvars

PureNext ==
    \/ /\ fx = FxIdle
       /\ \E task_data \in RangeCriteria \cup CriteriaSet,
             company_profile \in ArdProfiles :
               ApplyArdFilter(task_data, company_profile)
    \/ /\ fx = FxIdle
       /\ \E company_name \in CompanyNames : ApplyDeriveDomain(company_name)
    \/ /\ fx = FxIdle
       /\ \E height, width \in 0..MaxDim : ApplyMakeGrid(height, width)
    \/ /\ fx = FxIdle
       /\ \E task_data \in RangeCriteria \cup CriteriaSet,
             revenue \in RevenueBounds, employees \in EmployeeBounds,
             profiles \in Stage2Profiles :
               ApplyStage2Twice(task_data, revenue, employees, profiles)

PureSpec == Init /\ [][PureNext]_vars

\* ---------------------------------------------------------------- C1
\* C1: when the worker of a task has stopped, the task's status is one of
\* the terminal states no_results, no_emails, leads_found or failed; a
\* finished task is never left in pending or filtering_done.
C1_FinishedIsTerminal ==
    \A t \in Created : pc[t] = "done" => tasks_db[t].status \in TerminalStatuses

\* ---------------------------------------------------------------- C2
\* C2: a task whose criteria hold no industry code ends failed with a
\* non-empty error, and its worker never calls the Registry Client.
C2_NoSicCodesFails ==
    \A t \in Created :
        tasks_db[t].data.sicCodesArray = <<>> =>
            /\ calls[t] \cap {"search", "profile", "officers"} = {}
            /\ pc[t] = "done" =>
                 /\ tasks_db[t].status = FAILED
                 /\ tasks_db[t].error \notin {"None", ""}

C2_Witness ==
    \E t \in Created :
        /\ tasks_db[t].data.sicCodesArray = <<>>
        /\ pc[t] = "done"
        /\ tasks_db[t].error = "No SIC codes provided for search."

\* ---------------------------------------------------------------- C3
\* the transitions of the status the specification lists
SpecTransition(a, b) ==
    \/ a = b
    \/ a = PENDING /\ b = SEARCHING
    \/ a = SEARCHING /\ b \in {NO_RESULTS, FILTERING_DONE}
    \/ a = FILTERING_DONE /\ b \in {NO_EMAILS, LEADS_FOUND}
    \/ b = FAILED

\* C3 as stated: the status moves only along pending -> searching ->
\* (no_results | filtering_done) -> (no_emails | leads_found) or to failed,
\* and it is searching while stage 1 issues its search requests.
C3_Original ==
    [][\A t \in Created :
          /\ SpecTransition(tasks_db[t].status, tasks_db'[t].status)
          /\ pc[t] = "search" => tasks_db[t].status = SEARCHING]_vars

\* the transitions of the status the code makes
CodeTransition(a, b) ==
    \/ a = b
    \/ a = PENDING /\ b \in {NO_RESULTS, FILTERING_DONE}
    \/ a = FILTERING_DONE /\ b \in {NO_EMAILS, LEADS_FOUND}
    \/ b = FAILED

\* C3 amended: the status moves only along pending -> (no_results |
\* filtering_done), filtering_done -> (no_emails | leads_found) or to
\* failed, and it is still pending while stage 1 issues its search requests.
C3_Transitions ==
    [][\A t \in Created :
          /\ CodeTransition(tasks_db[t].status, tasks_db'[t].status)
          /\ pc[t] = "search" => tasks_db[t].status = PENDING]_vars

C3_Witness ==
    \E t \in Created :
        /\ "search" \in calls[t]
        /\ tasks_db[t].status = LEADS_FOUND

\* ---------------------------------------------------------------- C4
\* C4: a send is attempted exactly when the stages have finished with status
\* no_results, no_emails or leads_found and the notifier is available (the
\* contact phone is always present); never at pending, filtering_done or
\* failed.
C4_SendOnlyWhenTerminal ==
    \A t \in Created :
        /\ sms_at[t] \subseteq {NO_RESULTS, NO_EMAILS, LEADS_FOUND}
        /\ ( /\ pc[t] \in {"sms_error", "done"}
             /\ tasks_db[t].status \in {NO_RESULTS, NO_EMAILS, LEADS_FOUND}
             /\ twilio_client ) => "sms" \in calls[t]
        /\ "sms" \in calls[t] => twilio_client

\* ---------------------------------------------------------------- C5
\* C5 as stated: once getTask has returned a record with a terminal status,
\* every later getTask of that id returns the identical record.
C5_Original ==
    [][\A t \in Created :
          (seen[t] # <<>> /\ seen[t][1].status \in TerminalStatuses)
              => seen'[t] = seen[t]]_vars

\* C5 amended: once getTask has returned a record with a terminal status,
\* every later getTask of that id returns the same status and results; and
\* once the worker has finished the record does not change in any field.
C5_StableAfterTerminal ==
    [][\A t \in Created :
          /\ (seen[t] # <<>> /\ seen[t][1].status \in TerminalStatuses)
                => /\ seen'[t][1].status = seen[t][1].status
                   /\ seen'[t][1].results = seen[t][1].results
          /\ pc[t] = "done" => tasks_db'[t] = tasks_db[t]]_vars

C5_Witness ==
    \E t \in Created :
        /\ pc[t] = "done"
        /\ seen[t] # <<>>
        /\ seen[t][1].status = LEADS_FOUND
        /\ seen[t][1].sms_status = "pending"
        /\ tasks_db[t].sms_status = "sent"

\* ---------------------------------------------------------------- C6
\* C6: for every configured cap N the qualified list of stage 2 never holds
\* more than N companies.
C6_CapNeverExceeded ==
    \A t \in TaskIds : Len(qualified[t]) <= max_companies

\* ---------------------------------------------------------------- C7
\* what C7 states of a finished task
LeadsDecideStatus(t) ==
    /\ leads[t] # <<>> => tasks_db[t].status = LEADS_FOUND
    /\ leads[t] = <<>> => tasks_db[t].status = NO_EMAILS
    /\ tasks_db[t].results = <<leads[t]>>

HasResignationDate(o) == o.resigned_on \notin {"None", ""}

\* C8: no Email Finder query is issued and no lead is produced for an
\* officer whose entry carries a resignation date.
C8_ResignedNeverQueried ==
    \A t \in TaskIds :
        /\ \A o \in queried[t] : ~HasResignationDate(o)
        /\ \A i \in 1..Len(leads[t]) :
             ~\E o \in OfficerSet :
                 /\ HasResignationDate(o)
                 /\ o.name = leads[t][i].person_name

\* a resigned director has been examined, the director after it was queried
C8_Witness ==
    \E t \in Created :
        /\ Len(officers[t]) = 2
        /\ oidx[t] = 3
        /\ HasResignationDate(officers[t][1])
        /\ officers[t][1].officer_role = "director"
        /\ officers[t][1].name # ""
        /\ officers[t][1] \notin queried[t]
        /\ officers[t][2] \in queried[t]

\* ---------------------------------------------------------------- C9
\* C9: when the send fails the notification status becomes failed_to_send
\* and the notification error is recorded, while status, results and error
\* of the task stay as they were.
C9_SendFailureKeepsResult ==
    [][\A t \in Created :
          pc[t] \in {"sms", "sms_error"} =>
              /\ tasks_db'[t].status = tasks_db[t].status
              /\ tasks_db'[t].results = tasks_db[t].results
              /\ tasks_db'[t].error = tasks_db[t].error
              /\ pc'[t] = "sms_error" => tasks_db'[t].sms_status = "failed_to_send"
              /\ (pc[t] = "sms_error" /\ pc'[t] = "done") =>
                    /\ tasks_db'[t].sms_status = "failed_to_send"
                    /\ tasks_db'[t].sms_error \notin {"None", ""}]_vars

C9_Witness ==
    \E t \in Created :
        /\ pc[t] = "done"
        /\ tasks_db[t].sms_status = "failed_to_send"
        /\ tasks_db[t].sms_error # "None"
        /\ tasks_db[t].status = LEADS_FOUND
        /\ tasks_db[t].error = "None"

\* --------------------------------------------------------------- C10
\* C10: a record is written only by the worker of its own task id, getTask
\* never changes the store, and no task id has more than one worker run.
C10_SingleWriter ==
    [][/\ \A t \in Created :
            tasks_db'[t] # tasks_db[t] =>
                /\ pc'[t] # pc[t]
                /\ \A u \in TaskIds \ {t} : pc'[u] = pc[u]
       /\ seen' # seen => tasks_db' = tasks_db
       /\ \A t \in TaskIds : runs'[t] <= 1]_vars

\* two workers are running at once, each has written its record, and a
\* query has been answered
C10_Witness ==
    \E t, u \in Created :
        /\ t # u
        /\ pc[t] \notin {"idle", "done"} /\ pc[u] \notin {"idle", "done"}
        /\ tasks_db[t].status # PENDING /\ tasks_db[u].status # PENDING
        /\ seen[t] # <<>>

\* --------------------------------------------------------------- C11
\* C11: in every reachable state of a record, the states between two writes
\* of its worker included, the error field is set only if the status is
\* failed.
C11_ErrorOnlyWhenFailed ==
    \A t \in Created :
        tasks_db[t].error # "None" => tasks_db[t].status = FAILED

\* the state between the two writes of the handler, and the state after them
C11_Witness ==
    \E t \in Created :
        /\ pc[t] = "fail_error"
        /\ tasks_db[t].status = FAILED
        /\ tasks_db[t].error = "None"
        /\ errmsg[t] # "None"

\* --------------------------------------------------------------- C16
\* C16: an uncaught error at any stage leads to the handler only; the handler
\* leaves the results field as it was when the error occurred, and when it
\* is through the status is failed and the error field holds the message.
C16_FailureKeepsResults ==
    [][\A t \in Created :
          /\ errmsg'[t] # "None" =>
                pc'[t] \in {"fail_status", "fail_error", "done"}
          /\ errmsg'[t] # "None" => tasks_db'[t].results = tasks_db[t].results
          /\ (pc[t] = "fail_error" /\ pc'[t] = "done") =>
                /\ tasks_db'[t].status = FAILED
                /\ tasks_db'[t].error = errmsg[t]
                /\ errmsg[t] # "None"]_vars

\* a task failed in stage 3, after the qualified companies were stored: the
\* stored list is still there
C16_Witness ==
    \E t \in Created :
        /\ pc[t] = "done"
        /\ tasks_db[t].status = FAILED
        /\ tasks_db[t].error = errmsg[t]
        /\ tasks_db[t].results # <<>>
        /\ tasks_db[t].results[1] # <<>>

\* --------------------------------------------------------------- C12
\* a call of a client has returned or raised
Finished == client # ClientIdle /\ client.result # "running"

\* C12 as stated: in both clients a connection error or a timeout on the
\* first attempt is followed by exactly one retry, and the call returns None
\* only after a second attempt.
C12_Original ==
    (Finished /\ client.log[1] \in {"conn", "connect_timeout", "read_timeout"}) =>
        Len(client.log) = 2

\* C12 amended: in both clients a connection error (a connect timeout is
\* one) on the first attempt is followed by exactly one retry, and the call
\* returns None when the retry meets a connection error too; in the Email
\* Finder Client a read timeout is not retried, the call returns None after
\* that one attempt.
C12_ConnectionRetry ==
    Finished =>
        /\ client.log[1] \in {"conn", "connect_timeout"} =>
              /\ Len(client.log) = 2
              /\ client.log[2] \in {"conn", "connect_timeout"} =>
                    client.result = "None"
        /\ (client.who = "amf" /\ client.log[1] = "read_timeout") =>
              /\ Len(client.log) = 1
              /\ client.result = "None"

\* the Registry Client met a connection error twice and returned None
C12_Witness ==
    /\ Finished
    /\ client.who = "ch"
    /\ client.log = <<"conn", "conn">>
    /\ client.result = "None"

\* --------------------------------------------------------------- C13
\* C13 as stated: in both clients a 404 makes the call return the typed
\* not-found result, which is not the None of an error, and no attempt
\* follows the 404.
C13_Original ==
    Finished =>
        \A i \in 1..Len(client.log) :
            client.log[i] = "404" =>
                i = Len(client.log) /\ client.result = "not_found"

\* C13 amended: a 404 is never retried; the Email Finder Client returns the
\* typed not-found result for it, the Registry Client returns None as for
\* any other error status.
C13_NotFound ==
    Finished =>
        \A i \in 1..Len(client.log) :
            client.log[i] = "404" =>
                /\ i = Len(client.log)
                /\ client.result = IF client.who = "amf" THEN "not_found" ELSE "None"

\* the Email Finder Client met a 404 on its first attempt
C13_Witness ==
    /\ Finished
    /\ client.who = "amf"
    /\ client.log = <<"404">>
    /\ client.result = "not_found"

\* --------------------------------------------------------------- C14
\* C14: a call makes at most two attempts; a 429 on the first attempt is
\* followed by exactly one retry, and when the second attempt is rate-limited
\* or fails too the call returns None.
C14_RateLimitRetry ==
    client # ClientIdle =>
        /\ Len(client.log) <= 2
        /\ (Finished /\ client.log[1] \in {"429", "429_date"}) =>
              /\ Len(client.log) = 2
              /\ client.log[2] \in {"429", "429_date", "500", "conn",
                                     "connect_timeout", "read_timeout", "other"} =>
                    client.result = "None"

C20_MonthModeMatches ==
    \A t \in Created :
        LET task_data == tasks_db[t].data
        IN (task_data.budgetEndDateSearchType = "month"
               /\ task_data.budgetEndMonth # <<>>) =>
             \A i \in 1..Len(qualified[t]) :
                LET acc == qualified[t][i].profile.accounting_reference_date
                IN /\ acc # NoArd
                   /\ acc[1].month = task_data.budgetEndMonth[1]

\* --------------------------------------------------------------- C17
\* C17: in range mode, for a year-end of 29 February and a range from 25
\* February to 5 March of a non-leap year, the filter ends normally: the
\* years of the window without a 29 February are skipped, every other year of
\* the window is compared with the range, no year matches and the company is
\* rejected.
C17_LeapDayRange ==
    fx.fn = "ard" =>
        LET task_data == fx.in[1]
            acc == fx.in[2].accounting_reference_date
        IN (/\ task_data.budgetEndDateSearchType = "range"
            /\ acc = Ard(2, 29)
            /\ task_data.budgetEndStartDate[1].m = 2
            /\ task_data.budgetEndStartDate[1].d = 25
            /\ task_data.budgetEndEndDate[1].m = 3
            /\ task_data.budgetEndEndDate[1].d = 5
            /\ task_data.budgetEndEndDate[1].y = task_data.budgetEndStartDate[1].y
            /\ ~IsLeap(task_data.budgetEndStartDate[1].y)) =>
               LET y == task_data.budgetEndStartDate[1].y
                   window == (y - 1)..(y + 1)
               IN /\ fx.out.years.skipped = {w \in window : ~IsLeap(w)}
                  /\ fx.out.years.tested = {w \in window : IsLeap(w)}
                  /\ ~fx.out.years.match
                  /\ fx.out.rejected

\* the range of 2023: 2022 and 2023 are skipped, 2024 is compared, the
\* company is rejected
C17_Witness ==
    /\ fx.fn = "ard"
    /\ fx.in[1].budgetEndStartDate = Date(2023, 2, 25)
    /\ fx.in[1].budgetEndEndDate = Date(2023, 3, 5)
    /\ fx.in[2].accounting_reference_date = Ard(2, 29)
    /\ fx.out.years.skipped = {2022, 2023}
    /\ fx.out.years.tested = {2024}
    /\ fx.out.rejected

\* --------------------------------------------------------------- C18
\* C18: for a company name, the domain deriver returns None or a string that
\* ends in .co.uk; the part before the suffix is not empty, is made of
\* lowercase letters, digits and hyphens only (an underscore of the name is
\* removed like every other character), has no two hyphens in a row and no
\* hyphen at either end; it returns None exactly when nothing is left of the
\* name after cleaning.
DomainLabelChars == {"a", "b", "l", "t", "d", "1", "-"}

C18_DomainShape ==
    fx.fn = "domain" =>
        /\ fx.out = <<>> <=> CleanedName(fx.in) = <<>>
        /\ fx.out # <<>> =>
              LET domain == fx.out[1]
                  n == Len(domain) - Len(CoUk)
                  label == SubSeq(domain, 1, n)
              IN /\ n >= 1
                 /\ SubSeq(domain, n + 1, Len(domain)) = CoUk
                 /\ \A i \in 1..n : label[i] \in DomainLabelChars
                 /\ \A i \in 1..(n - 1) : ~(label[i] = "-" /\ label[i + 1] = "-")
                 /\ label[1] # "-" /\ label[n] # "-"

\* --------------------------------------------------------------- C19
\* C19: make_grid(height, width) is a mapping whose keys are exactly the
\* height*width pairs (row, col) with 0 <= row < height and 0 <= col < width,
\* each mapped to the empty string; with a zero dimension it is empty.
C19_GridKeys ==
    fx.fn = "grid" =>
        LET height == fx.in[1]
            width == fx.in[2]
            keys == DOMAIN fx.out
        IN /\ keys = {k \in (0..MaxDim + 1) \X (0..MaxDim + 1) :
                         k[1] < height /\ k[2] < width}
           /\ Cardinality(keys) = height * width
           /\ \A k \in keys : fx.out[k] = ""
           /\ (height = 0 \/ width = 0) => keys = {}

\* the grid of test_can_create_a_grid: 2 by 3, six keys
C19_Witness ==
    /\ fx.fn = "grid"
    /\ fx.in = <<2, 3>>
    /\ Cardinality(DOMAIN fx.out) = 6
    /\ <<1, 2>> \in DOMAIN fx.out
    /\ fx.out[<<1, 2>>] = ""

\* --------------------------------------------------------------- C21
\* C21: in range mode a company passes the year-end filter only if its
\* profile has a year-end day and month for which some year y with
\* start.year - 1 <= y <= end.year + 1 gives an existing date d with
\* start <= d <= end; a company with no such year, one whose day or month is
\* missing or out of range included, is rejected.
C21_RangeModeMatches ==
    (fx.fn = "ard" /\ fx.in[1].budgetEndDateSearchType = "range") =>
        LET sd == fx.in[1].budgetEndStartDate[1]
            ed == fx.in[1].budgetEndEndDate[1]
            acc == fx.in[2].accounting_reference_date
        IN ~fx.out.rejected <=>
              /\ acc # NoArd
              /\ \E y \in (sd.y - 1)..(ed.y + 1) :
                    /\ ValidDate(y, acc[1].month, acc[1].day)
                    /\ DateNum(sd) <= DateNum([y |-> y, m |-> acc[1].month,
                                               d |-> acc[1].day])
                    /\ DateNum([y |-> y, m |-> acc[1].month, d |-> acc[1].day])
                          <= DateNum(ed)

\* --------------------------------------------------------------- C22
\* C22: whenever a query observes the status filtering_done, the results it
\* observes are the list of qualified companies of stage 2, not None and not
\* the list of leads of stage 3.
C22_InterimResults ==
    \A t \in Created :
        (seen[t] # <<>> /\ seen[t][1].status = FILTERING_DONE) =>
            seen[t][1].results = <<qualified[t]>>

\* --------------------------------------------------------------- C23
\* C23: stage 1 asks for the pages at offsets 0, P, 2P, ... with the first
\* industry code as the query and appends the items of each page to those it
\* has; it asks for a further page if and only if the page it received holds
\* at least one item, the number of items accumulated is below the ceiling
\* and the advanced offset is below the total that page reports.
C23_Pagination ==
    [][\A t \in Created :
          /\ (pc[t] = "start" /\ pc'[t] = "search") =>
                search_params(t)'.start_index = 0
          /\ (pc[t] = "search"
                /\ (pc'[t] # "search" \/ start_index'[t] # start_index[t])) =>
                LET P == items_per_page_ch
                    got == last_page'[t]
                IN /\ search_params(t).q = Head(tasks_db[t].data.sicCodesArray)
                   /\ got = <<>> => items'[t] = items[t]
                   /\ got # <<>> =>
                         /\ Len(items'[t]) = Len(items[t]) + Len(got[1].items)
                         /\ SubSeq(items'[t], 1, Len(items[t])) = items[t]
                   /\ pc'[t] = "search" =>
                         search_params(t)'.start_index = start_index[t] + P
                   /\ errmsg'[t] = "None" =>
                         (pc'[t] = "search" <=>
                            /\ got # <<>>
                            /\ Len(got[1].items) >= 1
                            /\ Len(items'[t]) < MAX_INITIAL_SEARCH_RESULTS_CONFIG
                            /\ start_index[t] + P < got[1].total_results)]_vars

\* the second page brought the accumulated items to the ceiling while the
\* server reports more: no third page is asked for
C23_Witness ==
    \E t \in Created :
        /\ last_page[t] # <<>>
        /\ pc[t] = "filter"
        /\ start_index[t] = 2 * items_per_page_ch
        /\ start_index[t] < last_page[t][1].total_results
        /\ Len(items[t]) >= MAX_INITIAL_SEARCH_RESULTS_CONFIG

\* --------------------------------------------------------------- C24
\* C24: when the pagination of stage 1 has ended with no item, the worker
\* writes the empty list into results and then the status no_results, and it
\* makes no profile fetch, no officer fetch and no Email Finder query.
C24_NoResultsSkipsStages ==
    \A t \in Created :
        (/\ items[t] = <<>>
         /\ pc[t] \notin {"idle", "start", "search"}
         /\ errmsg[t] = "None") =>
            /\ calls[t] \cap {"profile", "officers", "amf"} = {}
            /\ pc[t] # "nores_results" => tasks_db[t].results = << <<>> >>
            /\ pc[t] \notin {"nores_results", "nores_status"} =>
                  tasks_db[t].status = NO_RESULTS

\* a worker that found nothing is through: one kind of call only
C24_Witness ==
    \E t \in Created :
        /\ pc[t] = "done"
        /\ items[t] = <<>>
        /\ calls[t] \cap {"search", "profile", "officers", "amf"} = {"search"}
        /\ tasks_db[t].status = NO_RESULTS
        /\ tasks_db[t].results = << <<>> >>

NonSmsFields(task_record) ==
    [task_record EXCEPT !.sms_status = "", !.sms_error = ""]

\* C26 as stated: once the status of a task is no_results, no_emails,
\* leads_found or failed, no field of its record other than the notification
\* status and the notification error is written again.
C26_Original ==
    [][\A t \in Created :
          tasks_db[t].status \in TerminalStatuses =>
              NonSmsFields(tasks_db'[t]) = NonSmsFields(tasks_db[t])]_vars

\* C26 amended: once the status is terminal, the status and the results
\* never change again; the notification status and error may still be
\* written, and so may the error field, once, when the status is failed.
C26_TerminalFrame ==
    [][\A t \in Created :
          tasks_db[t].status \in TerminalStatuses =>
              /\ tasks_db'[t].status = tasks_db[t].status
              /\ tasks_db'[t].results = tasks_db[t].results
              /\ tasks_db'[t].data = tasks_db[t].data
              /\ tasks_db'[t].phone_number = tasks_db[t].phone_number
              /\ tasks_db'[t].error # tasks_db[t].error =>
                    /\ tasks_db[t].status = FAILED
                    /\ tasks_db[t].error = "None"]_vars

\* the notification error was written after the terminal status no_emails,
\* and the results are those of stage 3
C26_Witness ==
    \E t \in Created :
        /\ pc[t] = "done"
        /\ tasks_db[t].status = NO_EMAILS
        /\ tasks_db[t].sms_status = "failed_to_send"
        /\ tasks_db[t].sms_error # "None"
        /\ tasks_db[t].results = <<leads[t]>>

\* --------------------------------------------------------------- C27
\* C27: a search request that returns None does not send the task to the
\* failure handler; it ends the pagination with the items accumulated so far.
\* After a first page that returned None the worker writes empty results and
\* the status no_results, as it does when the registry reports no company.
C27_AbsentSearchPage ==
    [][\A t \in Created :
          /\ (pc[t] = "search" /\ pc'[t] # "search" /\ last_absent'[t]) =>
                /\ errmsg'[t] = "None"
                /\ items'[t] = items[t]
                /\ tasks_db'[t] = tasks_db[t]
                /\ pc'[t] = IF items[t] = <<>> THEN "nores_results" ELSE "filter"
          /\ (pc[t] = "nores_results" /\ pc'[t] # pc[t]) =>
                /\ tasks_db'[t].results = << <<>> >>
                /\ pc'[t] = "nores_status"
          /\ (pc[t] = "nores_status" /\ pc'[t] # pc[t]) =>
                /\ tasks_db'[t].status = NO_RESULTS
                /\ tasks_db'[t].results = << <<>> >>
                /\ pc'[t] \notin {"fail_status", "filter", "officers"}]_vars

\* the first search request returned None: nothing accumulated, the worker
\* is about to write the empty results
C27_Witness ==
    \E t \in Created :
        /\ last_absent[t]
        /\ pc[t] = "nores_results"
        /\ start_index[t] = 0
        /\ items[t] = <<>>
        /\ errmsg[t] = "None"
        /\ tasks_db[t].status = PENDING

====
